---- MODULE Spec2Model ----
(***************************************************************************)
(* CardioKinetic Monte Carlo engine (monte_carlo_simulation.py).           *)
(*                                                                         *)
(* Numbers: power multipliers are kept in tenths (1.0 is 10), so that the  *)
(* model stays within the integers.  Strings the code takes apart          *)
(* (keyframe positions) are sequences of one-character strings; a phase    *)
(* name is a pair <<label, number>> ("Week 3" is <<"Week", 3>>).           *)
(***************************************************************************)
EXTENDS Integers, Sequences, FiniteSets, TLC

\* ------------------------------------------------------------------ bounds
MaxWeeks == 4
MaxKeyframes == 3
MaxPct == 30
MaxSeqSims == 2      \* the sequential path runs 1..MaxSeqSims simulations
ExtraSims == 1       \* the parallel path runs 500..500 + ExtraSims simulations
MaxWorkers == 3
MaxRunWeeks == 1
MaxEntropy == 1      \* SeedSequence().generate_state(1)[0] is in 0..MaxEntropy
PartSpan == 5        \* the split is computed this far around the threshold

\* --------------------------------------------------------------- constants
DEFAULT_SESSION_DURATION == 15
MIN_PARALLEL_SIMULATIONS == 500     \* num_simulations >= 500

VARIABLES
    weeks,            \* interpolate_weeks: the keyframe list (template['weeks'])
    total_weeks,      \* interpolate_weeks / resolve_week_position: total_weeks
    default_duration, \* interpolate_weeks: default_duration
    resolved,         \* interpolate_weeks: the local list of (pos, w), sorted
    week_defs,        \* interpolate_weeks: the returned list
    ipc,              \* interpolate_weeks: "call" | "done" | "raised"
    position,         \* resolve_week_position: position
    week,             \* resolve_week_position: the returned week
    prev,             \* the previous resolve_week_position call: <<position, week>>
    rpc,              \* resolve_week_position: "call" | "done" | "raised"
    num_simulations,  \* run_monte_carlo_optimized: num_simulations
    num_workers,      \* run_monte_carlo_optimized: num_workers
    num_weeks,        \* run_monte_carlo_optimized: num_weeks
    power_mult,       \* the daily vectors of prepare_week_data, day d at d + 1
    target_rpe,
    duration,
    use_multiprocessing,
    plan,             \* the (i, size) of the batches the split appends
    batches,          \* the argument tuples handed to pool.map
    task,             \* pool.map: the state of each batch's task
    rng,              \* the sequential path's generator: <<>> or <<state>>
    all_fatigue,      \* the stacked matrix: <<>> or <<shape>>
    sim,              \* the sequential loop's counter
    results,          \* the returned dict: <<>> or <<dict>>
    pc,               \* "start" | "pool" | "loop" | "done" | "failed"
    daily_loads,      \* run_single_simulation_fast / vectorized_ewma: daily_loads
    sessions_per_week,\* run_single_simulation_fast: sessions_per_week
    week_idx,         \* run_single_simulation_fast: the week loop's week_idx
    sessions,         \* the sessions a trial has scheduled so far, in order
    atl,              \* the arrays of lines 286-292, day d at place d + 1
    ctl,
    tsb,
    fatigue_scores,
    readiness_scores,
    prev_day0,        \* day 0 of the trial before: <<>> or <<record>>
    tpc,              \* the trial's / the score call's position
    alpha,            \* vectorized_ewma: alpha, as a fraction
    initial,          \* vectorized_ewma: initial
    cur,              \* vectorized_ewma: current
    result,           \* vectorized_ewma: result, as far as it is filled
    idx,              \* vectorized_ewma: the loop's i
    epc,              \* vectorized_ewma: "loop" | "done"
    pool_results,     \* line 366: what pool.map returned, one matrix per batch
    spc               \* the statistics' position: "stack" | "done"

interpVars == <<weeks, total_weeks, default_duration, resolved, week_defs, ipc>>
resolveVars == <<position, week, prev, rpc>>
inputVars == <<num_simulations, num_workers, num_weeks>>
vectorVars == <<power_mult, target_rpe, duration>>
runVars == <<use_multiprocessing, plan, batches, task, rng, all_fatigue, sim, results, pc>>
trialVars == <<daily_loads, sessions_per_week, week_idx, sessions, atl, ctl, tsb,
               fatigue_scores, readiness_scores, prev_day0, tpc>>
ewmaVars == <<alpha, initial, cur, result, idx, epc>>
statVars == <<pool_results, spc>>
coreVars == <<trialVars, ewmaVars, statVars>>
vars == <<interpVars, resolveVars, inputVars, vectorVars, runVars, coreVars>>

\* the variables of a function that is not running
TrialIdle ==
    /\ daily_loads = <<>>
    /\ sessions_per_week = <<>>
    /\ week_idx = 0
    /\ sessions = <<>>
    /\ atl = <<>>
    /\ ctl = <<>>
    /\ tsb = <<>>
    /\ fatigue_scores = <<>>
    /\ readiness_scores = <<>>
    /\ prev_day0 = <<>>
    /\ tpc = "idle"

EwmaIdle ==
    /\ alpha = [num |-> 0, den |-> 1]
    /\ initial = 0
    /\ cur = 0
    /\ result = <<>>
    /\ idx = 0
    /\ epc = "idle"

StatIdle ==
    /\ pool_results = <<>>
    /\ spc = "idle"

CoreIdle == TrialIdle /\ EwmaIdle /\ StatIdle

\* ------------------------------------------------------- values of the code
Max2(a, b) == IF a >= b THEN a ELSE b
Min2(a, b) == IF a <= b THEN a ELSE b

\* A position of a keyframe: an int, a str, or a value that is neither.
IntPos(n) == [kind |-> "int", n |-> n]
StrPos(s) == [kind |-> "str", s |-> s]
OtherPos == [kind |-> "other"]

FIRST == <<"f", "i", "r", "s", "t">>
LAST == <<"l", "a", "s", "t">>

Digits == <<"0", "1", "2", "3", "4", "5", "6", "7", "8", "9">>
IsDigit(c) == \E d \in 1..10 : Digits[d] = c
DigitVal(c) == (CHOOSE d \in 1..10 : Digits[d] = c) - 1

\* dict.get(key, default)
Get(w, key, default) == IF key \in DOMAIN w THEN w[key] ELSE default

\* float(s) for the decimal literals [+-]digits[.digits]: the value as the
\* fraction num/den, or ok = FALSE where float() raises ValueError.
RECURSIVE DigitsValue(_)
DigitsValue(s) ==
    IF s = <<>> THEN 0
    ELSE 10 * DigitsValue(SubSeq(s, 1, Len(s) - 1)) + DigitVal(s[Len(s)])

RECURSIVE Pow10(_)
Pow10(k) == IF k = 0 THEN 1 ELSE 10 * Pow10(k - 1)

AllDigits(s) == \A k \in 1..Len(s) : IsDigit(s[k])

ParseUnsigned(s) ==
    LET dots == {k \in 1..Len(s) : s[k] = "."}
    IN  IF dots = {} THEN
            IF s # <<>> /\ AllDigits(s)
            THEN [ok |-> TRUE, num |-> DigitsValue(s), den |-> 1]
            ELSE [ok |-> FALSE]
        ELSE IF Cardinality(dots) > 1 THEN [ok |-> FALSE]
        ELSE LET d == CHOOSE k \in dots : TRUE
                 ip == SubSeq(s, 1, d - 1)
                 fp == SubSeq(s, d + 1, Len(s))
             IN  IF AllDigits(ip) /\ AllDigits(fp) /\ Len(ip) + Len(fp) > 0
                 THEN [ok |-> TRUE, num |-> DigitsValue(ip \o fp), den |-> Pow10(Len(fp))]
                 ELSE [ok |-> FALSE]

ParseFloat(s) ==
    IF s # <<>> /\ s[1] = "-" THEN
        LET u == ParseUnsigned(Tail(s))
        IN  IF u.ok THEN [ok |-> TRUE, num |-> 0 - u.num, den |-> u.den] ELSE u
    ELSE IF s # <<>> /\ s[1] = "+" THEN ParseUnsigned(Tail(s))
    ELSE ParseUnsigned(s)

\* round(num/den) of Python 3: to the nearest integer, a tie to the even one.
PyRound(num, den) ==
    LET q == num \div den
        r == num % den
    IN  IF 2 * r < den THEN q
        ELSE IF 2 * r > den THEN q + 1
        ELSE IF q % 2 = 0 THEN q ELSE q + 1

EndsWithPercent(s) == s # <<>> /\ s[Len(s)] = "%"

\* resolve_week_position raises (float() of a non-number before the '%').
ResolveRaises(pos) ==
    /\ pos.kind = "str"
    /\ pos.s # FIRST
    /\ pos.s # LAST
    /\ EndsWithPercent(pos.s)
    /\ ~ParseFloat(SubSeq(pos.s, 1, Len(pos.s) - 1)).ok

\* the percentage branch with int() for round()
PercentWeek_truncating(f, n) ==
    IF f.num = 0 THEN 1
    ELSE Max2(1, Min2(n, ((f.num * n) \div (f.den * 100)) + 1))

\* the percentage branch of resolve_week_position
PercentWeek(f, n) ==
    IF f.num = 0 THEN 1
    ELSE Max2(1, Min2(n, PyRound(f.num * n, f.den * 100) + 1))

\* resolve_week_position with an integer position clamped into [1, total_weeks]
resolve_week_position_clamped(pos, tw) ==
    IF pos.kind = "int" THEN Max2(1, Min2(tw, pos.n))
    ELSE IF pos.kind = "str" THEN
        IF pos.s = FIRST THEN 1
        ELSE IF pos.s = LAST THEN tw
        ELSE IF EndsWithPercent(pos.s)
             THEN PercentWeek(ParseFloat(SubSeq(pos.s, 1, Len(pos.s) - 1)), tw)
             ELSE 1
    ELSE 1

\* resolve_week_position that does not know the 'last' marker
resolve_week_position_lastless(pos, tw) ==
    IF pos.kind = "int" THEN pos.n
    ELSE IF pos.kind = "str" THEN
        IF pos.s = FIRST THEN 1
        ELSE IF EndsWithPercent(pos.s)
             THEN PercentWeek(ParseFloat(SubSeq(pos.s, 1, Len(pos.s) - 1)), tw)
             ELSE 1
    ELSE 1

resolve_week_position(pos, tw) ==
    IF pos.kind = "int" THEN pos.n
    ELSE IF pos.kind = "str" THEN
        IF pos.s = FIRST THEN 1
        ELSE IF pos.s = LAST THEN tw
        ELSE IF EndsWithPercent(pos.s)
             THEN PercentWeek(ParseFloat(SubSeq(pos.s, 1, Len(pos.s) - 1)), tw)
             ELSE 1
    ELSE 1

\* an unstable sort: x goes in front of the elements with an equal key
InsertByPos_unstable(sorted, x) ==
    LET k == Cardinality({m \in 1..Len(sorted) : sorted[m][1] < x[1]})
    IN  SubSeq(sorted, 1, k) \o <<x>> \o SubSeq(sorted, k + 1, Len(sorted))

\* resolved.sort(key=lambda x: x[0]): list.sort is stable.  InsertByPos puts x
\* behind every element whose key is <= x's key.
InsertByPos(sorted, x) ==
    LET k == Cardinality({m \in 1..Len(sorted) : sorted[m][1] <= x[1]})
    IN  SubSeq(sorted, 1, k) \o <<x>> \o SubSeq(sorted, k + 1, Len(sorted))

RECURSIVE SortByPos(_)
SortByPos(s) ==
    IF s = <<>> THEN <<>>
    ELSE InsertByPos(SortByPos(SubSeq(s, 1, Len(s) - 1)), s[Len(s)])

\* lines 156-160: the (pos, w) pairs, sorted
ResolveAll(ws, tw) ==
    SortByPos([j \in 1..Len(ws) |->
        <<resolve_week_position(Get(ws[j], "position", IntPos(1)), tw), ws[j]>>])

\* the scan with "pos < week_num" for "pos <= week_num"
RECURSIVE ScanActive_strict(_, _, _, _)
ScanActive_strict(res, k, week_num, current) ==
    IF k > Len(res) THEN current
    ELSE IF res[k][1] < week_num THEN ScanActive_strict(res, k + 1, week_num, k)
    ELSE current

\* The inner scan of lines 171-176: the index in res of current_def, 0 for None.
RECURSIVE ScanActive(_, _, _, _)
ScanActive(res, k, week_num, current) ==
    IF k > Len(res) THEN current
    ELSE IF res[k][1] <= week_num THEN ScanActive(res, k + 1, week_num, k)
    ELSE current

CurrentDef(res, week_num) ==
    LET c == ScanActive(res, 1, week_num, 0)
    IN  IF c = 0 THEN res[1][2] ELSE res[c][2]

WeekDefinition(week_num, current_def, dd) ==
    [position         |-> week_num,
     phase_name       |-> Get(current_def, "phaseName", <<"Week", week_num>>),
     focus            |-> Get(current_def, "focus", "Volume"),
     power_multiplier |-> Get(current_def, "powerMultiplier", 10),
     target_rpe       |-> Get(current_def, "targetRPE", 6),
     duration_minutes |-> Get(current_def, "durationMinutes", dd),
     work_rest_ratio  |-> Get(current_def, "workRestRatio", "1:1")]

\* range(1, total_weeks)
WeekRange_short(tw) == 1..(tw - 1)

\* range(1, total_weeks + 1)
WeekRange(tw) == 1..tw

interpolate_weeks(ws, tw, dd) ==
    LET res == ResolveAll(ws, tw)
    IN  IF res = <<>>
        THEN [i \in WeekRange(tw) |-> WeekDefinition(i, <<>>, dd)]
        ELSE [week_num \in WeekRange(tw) |->
                 WeekDefinition(week_num, CurrentDef(res, week_num), dd)]

InterpolateRaises(ws) ==
    \E j \in 1..Len(ws) : ResolveRaises(Get(ws[j], "position", IntPos(1)))

\* --------------------------------------------------------------- the inputs
PCT_50 == <<"5", "0", "%">>
PCT_150 == <<"1", "5", "0", "%">>
PCT_BAD == <<"x", "%">>
ABSENT == [kind |-> "absent"]

\* The position of a keyframe: an int, a marker, a percentage, a '%' string
\* that is no number, or no position key at all.
KeyframePositions ==
    {IntPos(n) : n \in 0..MaxWeeks}
        \cup {StrPos(FIRST), StrPos(LAST), StrPos(PCT_50), StrPos(PCT_150),
              StrPos(PCT_BAD), ABSENT}

\* The j-th keyframe of a template, as test_interpolation.py writes them
\* (phase j, multiplier 1.0 + 0.1 (j - 1), target RPE 4 + j).
Keyframe(j, p) ==
    LET fields == [phaseName |-> <<"Phase", j>>, powerMultiplier |-> 9 + j,
                   targetRPE |-> 4 + j]
    IN  IF p = ABSENT THEN fields
        ELSE [k \in {"position"} \cup DOMAIN fields |->
                 IF k = "position" THEN p ELSE fields[k]]

\* --------------------------------------------------------- interpolate_weeks
InitInterp ==
    /\ \E len \in 0..MaxKeyframes :
          \E f \in [1..len -> KeyframePositions] :
              weeks = [j \in 1..len |-> Keyframe(j, f[j])]
    /\ total_weeks \in 1..MaxWeeks
    /\ default_duration = 20
    /\ resolved = <<>>
    /\ week_defs = <<>>
    /\ ipc = "call"
    /\ position = OtherPos
    /\ week = 0
    /\ prev = <<>>
    /\ rpc = "idle"
    /\ num_simulations = 0
    /\ num_workers = 0
    /\ num_weeks = 0
    /\ power_mult = <<>>
    /\ target_rpe = <<>>
    /\ duration = <<>>
    /\ use_multiprocessing = FALSE
    /\ plan = <<>>
    /\ batches = <<>>
    /\ task = <<>>
    /\ rng = <<>>
    /\ all_fatigue = <<>>
    /\ sim = 0
    /\ results = <<>>
    /\ pc = "idle"
    /\ CoreIdle

Interpolate ==
    /\ ipc = "call"
    /\ IF InterpolateRaises(weeks)
       THEN /\ ipc' = "raised"
            /\ UNCHANGED <<resolved, week_defs>>
       ELSE /\ resolved' = ResolveAll(weeks, total_weeks)
            /\ week_defs' = interpolate_weeks(weeks, total_weeks, default_duration)
            /\ ipc' = "done"
    /\ UNCHANGED <<weeks, total_weeks, default_duration, resolveVars>>
    /\ UNCHANGED <<inputVars, vectorVars, runVars>>
    /\ UNCHANGED coreVars

NextInterp == Interpolate

SpecInterp == InitInterp /\ [][NextInterp]_vars

\* ----------------------------------------------------- resolve_week_position
BOGUS == <<"m", "i", "d">>

\* str(n) of a natural number, as characters
RECURSIVE NatChars(_)
NatChars(n) ==
    IF n < 10 THEN <<Digits[n + 1]>>
    ELSE NatChars(n \div 10) \o <<Digits[(n % 10) + 1]>>

IntChars(n) == IF n < 0 THEN <<"-">> \o NatChars(0 - n) ELSE NatChars(n)

\* The percentage positions handed to resolve_week_position, each with the
\* number num/den its text denotes: every whole percentage from -MaxPct to
\* 100 + MaxPct, and the fractional ones of test_interpolation.py.
PctTable ==
    {[s |-> IntChars(p) \o <<"%">>, num |-> p, den |-> 1] :
        p \in (0 - MaxPct)..(100 + MaxPct)}
    \cup {[s |-> <<"3", "3", ".", "3", "3", "3", "3", "%">>, num |-> 333333, den |-> 10000],
          [s |-> <<"6", "6", ".", "6", "6", "6", "6", "%">>, num |-> 666666, den |-> 10000],
          [s |-> <<"1", "2", ".", "5", "%">>, num |-> 125, den |-> 10],
          [s |-> <<"0", ".", "0", "%">>, num |-> 0, den |-> 10]}

ResolveInputs ==
    {StrPos(r.s) : r \in PctTable}
        \cup {IntPos(n) : n \in (0 - 1)..(MaxWeeks + 1)}
        \cup {StrPos(FIRST), StrPos(LAST), StrPos(BOGUS), StrPos(PCT_BAD), OtherPos}

InitResolve ==
    /\ total_weeks \in 1..MaxWeeks
    /\ position \in ResolveInputs
    /\ week = 0
    /\ prev = <<>>
    /\ rpc = "call"
    /\ weeks = <<>>
    /\ default_duration = 20
    /\ resolved = <<>>
    /\ week_defs = <<>>
    /\ ipc = "idle"
    /\ num_simulations = 0
    /\ num_workers = 0
    /\ num_weeks = 0
    /\ power_mult = <<>>
    /\ target_rpe = <<>>
    /\ duration = <<>>
    /\ use_multiprocessing = FALSE
    /\ plan = <<>>
    /\ batches = <<>>
    /\ task = <<>>
    /\ rng = <<>>
    /\ all_fatigue = <<>>
    /\ sim = 0
    /\ results = <<>>
    /\ pc = "idle"
    /\ CoreIdle

\* one call of resolve_week_position(position, total_weeks)
ResolveCall ==
    /\ rpc = "call"
    /\ IF ResolveRaises(position)
       THEN /\ rpc' = "raised"
            /\ UNCHANGED week
       ELSE /\ week' = resolve_week_position(position, total_weeks)
            /\ rpc' = "done"
    /\ UNCHANGED <<position, prev, total_weeks>>
    /\ UNCHANGED <<weeks, default_duration, resolved, week_defs, ipc>>
    /\ UNCHANGED <<inputVars, vectorVars, runVars>>
    /\ UNCHANGED coreVars

\* the caller goes on to the next position (test_interpolation.py, lines 14-16)
NextPosition ==
    /\ rpc \in {"done", "raised"}
    /\ prev' = IF rpc = "done" THEN <<position, week>> ELSE prev
    /\ position' \in ResolveInputs
    /\ rpc' = "call"
    /\ UNCHANGED <<week, total_weeks>>
    /\ UNCHANGED <<weeks, default_duration, resolved, week_defs, ipc>>
    /\ UNCHANGED <<inputVars, vectorVars, runVars>>
    /\ UNCHANGED coreVars

NextResolve == ResolveCall \/ NextPosition

SpecResolve == InitResolve /\ [][NextResolve]_vars

\* --------------------------------------------- resolve_week_position: claims
IsPct(pos) == pos.kind = "str" /\ \E r \in PctTable : r.s = pos.s
PctOf(pos) == CHOOSE r \in PctTable : r.s = pos.s
\* r is an integer nearest to (p / 100) * n, for p = v.num / v.den
Nearest(r, v, n) ==
    LET d == v.num * n - r * v.den * 100
    IN  2 * (IF d < 0 THEN 0 - d ELSE d) <= v.den * 100
Clamped(x, n) == IF x < 1 THEN 1 ELSE IF x > n THEN n ELSE x
\* u <= v, both brought to ten-thousandths (the finest denominator of PctTable)
PctLeq(u, v) == u.num * (10000 \div u.den) <= v.num * (10000 \div v.den)

\* C10: for a percentage position "p%" and total_weeks >= 1 the call returns
\* 1 when p = 0 and otherwise round((p / 100) * total_weeks) + 1 clamped into
\* [1, total_weeks]; the result lies in [1, total_weeks], and of two calls with
\* the same total_weeks the one with the smaller p never returns the larger
\* week.
C10_PercentagePosition ==
    (rpc = "done" /\ IsPct(position)) =>
        LET v == PctOf(position)
            q == (v.num * total_weeks) \div (v.den * 100)
        IN  /\ v.num = 0 => week = 1
            /\ v.num # 0 =>
                  \E r \in {q, q + 1} :
                      /\ Nearest(r, v, total_weeks)
                      /\ week = Clamped(r + 1, total_weeks)
            /\ week \in 1..total_weeks
            /\ (prev # <<>> /\ IsPct(prev[1])) =>
                  /\ PctLeq(PctOf(prev[1]), v) => prev[2] <= week
                  /\ PctLeq(v, PctOf(prev[1])) => week <= prev[2]

C10_Witness ==
    /\ rpc = "done"
    /\ total_weeks = 3
    /\ position = StrPos(PCT_50)
    /\ week = 3
    /\ prev = <<StrPos(<<"-", "5", "%">>), 1>>

\* C11: for every total_weeks >= 1 the position 'first' resolves to week 1,
\* 'last' to week total_weeks, and '0%' to week 1.
C11_MarkerPositions ==
    rpc = "done" =>
        /\ position = StrPos(FIRST) => week = 1
        /\ position = StrPos(LAST) => week = total_weeks
        /\ position = StrPos(<<"0", "%">>) => week = 1

C11_Witness ==
    /\ rpc = "done"
    /\ total_weeks = 3
    /\ position = StrPos(LAST)
    /\ week = 3
    /\ prev = <<StrPos(<<"0", "%">>), 1>>

\* ------------------------------------------------- interpolate_weeks: claims
\* What the formulas below read off a finished call.
Done == ipc = "done"
NKey == Len(weeks)
\* the place of keyframe j in the sorted list, and its resolved index
PlaceOf(j) == CHOOSE m \in 1..Len(resolved) : resolved[m][2] = weeks[j]
PosOf(j) == resolved[PlaceOf(j)][1]
\* week w's WeekDefinition carries the fields of keyframe j
TakenFrom(w, j) ==
    /\ week_defs[w].position = w
    /\ week_defs[w].phase_name = weeks[j].phaseName
    /\ week_defs[w].power_multiplier = weeks[j].powerMultiplier
    /\ week_defs[w].target_rpe = weeks[j].targetRPE
    /\ week_defs[w].duration_minutes = default_duration
Qualifying(w) == {j \in 1..NKey : PosOf(j) <= w}
IsIntKeyframe(j) == "position" \in DOMAIN weeks[j] /\ weeks[j].position.kind = "int"
IsPctKeyframe(j) ==
    /\ "position" \in DOMAIN weeks[j]
    /\ weeks[j].position.kind = "str"
    /\ weeks[j].position.s \in {PCT_50, PCT_150}

\* C6: for every total_weeks >= 1 and every keyframe list, a call of
\* interpolate_weeks that returns gives exactly total_weeks WeekDefinitions
\* whose position fields are 1, 2, ..., total_weeks in order.
C6_ExactlyTotalWeeks ==
    Done => /\ DOMAIN week_defs = 1..total_weeks
            /\ \A w \in 1..total_weeks : week_defs[w].position = w

C6_Witness ==
    /\ Done
    /\ total_weeks = MaxWeeks - 1
    /\ NKey >= 2
    /\ \E j \in 1..NKey : PosOf(j) > total_weeks
    /\ \E j \in 1..NKey : PosOf(j) < 1
    /\ \E j \in 1..NKey : IsPctKeyframe(j)
    /\ DOMAIN week_defs = 1..total_weeks

\* C7: last-value-hold.  For a non-empty keyframe list and every week w, the
\* WeekDefinition of w takes its fields from a keyframe with the greatest
\* resolved index <= w; if no keyframe has a resolved index <= w, from the
\* first keyframe in sorted order, which has the smallest resolved index.  The
\* resolved index of the active keyframe never decreases from one week to the
\* next once some keyframe qualifies.
C7_LastValueHold ==
    (Done /\ NKey > 0) =>
        /\ \A w \in 1..total_weeks :
              IF Qualifying(w) # {}
              THEN \E j \in Qualifying(w) :
                      /\ \A m \in Qualifying(w) : PosOf(m) <= PosOf(j)
                      /\ TakenFrom(w, j)
              ELSE \E j \in 1..NKey :
                      /\ PlaceOf(j) = 1
                      /\ \A m \in 1..NKey : PosOf(j) <= PosOf(m)
                      /\ TakenFrom(w, j)
        /\ \A w \in 1..total_weeks, x \in 1..total_weeks :
              (w < x /\ Qualifying(w) # {}) =>
                  \A j \in 1..NKey, m \in 1..NKey :
                      (TakenFrom(w, j) /\ TakenFrom(x, m)) => PosOf(j) <= PosOf(m)

C7_Witness ==
    /\ Done
    /\ NKey = 3
    /\ total_weeks = MaxWeeks - 1
    /\ PosOf(1) = 3 /\ PosOf(2) = 2 /\ PosOf(3) = total_weeks + 1
    /\ TakenFrom(1, 2) /\ TakenFrom(2, 2) /\ TakenFrom(3, 1) /\ TakenFrom(total_weeks, 1)

\* C8: the keyframes are stable-sorted by resolved index, and of several
\* keyframes that resolve to the same index k the last of them in the original
\* list is the active one for every week w >= k that no keyframe with a larger
\* resolved index <= w covers; an earlier tied keyframe is never the active one
\* for a week at or after k.
C8_TieBreak ==
    (Done /\ NKey > 0) =>
        /\ Len(resolved) = NKey
        /\ \A j \in 1..NKey : \E m \in 1..NKey : resolved[m][2] = weeks[j]
        /\ \A j \in 1..NKey, m \in 1..NKey :
              /\ PosOf(j) < PosOf(m) => PlaceOf(j) < PlaceOf(m)
              /\ (PosOf(j) = PosOf(m) /\ j < m) => PlaceOf(j) < PlaceOf(m)
        /\ \A j \in 1..NKey, m \in 1..NKey :
              (j < m /\ PosOf(j) = PosOf(m)) =>
                  \A w \in 1..total_weeks :
                      w >= PosOf(j) =>
                          /\ ~TakenFrom(w, j)
                          /\ (/\ \A n \in 1..NKey : n > m => PosOf(n) # PosOf(m)
                              /\ \A n \in 1..NKey : ~(PosOf(m) < PosOf(n) /\ PosOf(n) <= w))
                                 => TakenFrom(w, m)

C8_Witness ==
    /\ Done
    /\ NKey = 3
    /\ total_weeks >= 3
    /\ PosOf(1) = 2 /\ PosOf(2) = 1 /\ PosOf(3) = 2
    /\ PlaceOf(1) = 2 /\ PlaceOf(3) = 3
    /\ TakenFrom(1, 2) /\ TakenFrom(2, 3) /\ TakenFrom(3, 3)

\* C9: an integer position is returned unchanged, whatever its value (it is
\* not clamped into [1, total_weeks]), while a percentage position resolves
\* into [1, total_weeks].  An integer keyframe whose position is beyond
\* total_weeks is used for no week unless every keyframe resolves beyond
\* total_weeks, and one whose position is <= 0 qualifies from week 1 on: week 1
\* is then never filled by the fallback, and is filled by that keyframe when no
\* other keyframe resolves into [position, 1].
C9_IntegerUnclamped ==
    Done =>
        \A j \in 1..NKey :
            /\ IsIntKeyframe(j) =>
                  /\ PosOf(j) = weeks[j].position.n
                  /\ (PosOf(j) > total_weeks /\ \E w \in 1..total_weeks : TakenFrom(w, j))
                        => \A m \in 1..NKey : PosOf(m) > total_weeks
                  /\ PosOf(j) <= 0 =>
                        /\ \E m \in Qualifying(1) : TakenFrom(1, m)
                        /\ (\A m \in 1..NKey :
                               m # j => (PosOf(m) < PosOf(j) \/ PosOf(m) > 1))
                              => TakenFrom(1, j)
            /\ IsPctKeyframe(j) => PosOf(j) \in 1..total_weeks

C9_Witness ==
    /\ Done
    /\ NKey = 3
    /\ total_weeks = 2
    /\ IsIntKeyframe(1) /\ IsIntKeyframe(2) /\ IsPctKeyframe(3)
    /\ weeks[1].position = IntPos(MaxWeeks) /\ PosOf(1) = MaxWeeks
    /\ weeks[2].position = IntPos(0) /\ PosOf(2) = 0
    /\ weeks[3].position = StrPos(PCT_150) /\ PosOf(3) = 2
    /\ TakenFrom(1, 2) /\ TakenFrom(2, 3)

\* C12: interpolate_weeks never raises, whatever the keyframes' positions
\* hold.
C12_NeverRaises == ipc # "raised"

\* ================================================= run_monte_carlo_optimized
\* A matrix np.empty((rows, cols)) of which `filled` rows hold a trial's scores.
Matrix(rows, cols) == [rows |-> rows, cols |-> cols, filled |-> 0]

\* the daily vector with every day taken from the first week
DayVector_firstweek(defs, nw, field) == [d \in 1..(nw * 7) |-> defs[1][field]]

\* prepare_week_data: one entry per day, day index d at place d + 1.  A day
\* of a week beyond week_defs keeps what np.empty left there.
DayVector(defs, nw, field) ==
    [d \in 1..(nw * 7) |->
        LET wk == ((d - 1) \div 7) + 1
        IN  IF wk <= Len(defs) THEN defs[wk][field] ELSE "uninitialized"]

prepare_week_data(defs, nw) ==
    [power_mult |-> DayVector(defs, nw, "power_multiplier"),
     target_rpe |-> DayVector(defs, nw, "target_rpe"),
     duration   |-> DayVector(defs, nw, "duration_minutes")]

\* np.random.default_rng(seed): a generator, and how many trials drew from it
Generator(seed) == [seed |-> seed, used |-> 0]

\* a trial that scales the planned power in place
run_single_simulation_fast_inplace(nd, pm, tr, du, g) ==
    [scores     |-> [cols |-> nd],
     rng        |-> [g EXCEPT !.used = @ + 1],
     power_mult |-> [pm EXCEPT ![1] = @ + 1],
     target_rpe |-> tr,
     duration   |-> du]

\* run_single_simulation_fast as its caller sees it: it returns two score
\* arrays of num_days entries, draws from the generator it was handed, and
\* reads the three vectors (numpy arrays, passed by reference) without
\* assigning to them.
run_single_simulation_fast(nd, pm, tr, du, g) ==
    [scores     |-> [cols |-> nd],
     rng        |-> [g EXCEPT !.used = @ + 1],
     power_mult |-> pm,
     target_rpe |-> tr,
     duration   |-> du]

\* one iteration of the loop of run_batch_simulations
BatchStep(st, args) ==
    LET out == run_single_simulation_fast(
                   args.num_days, st.power_mult, st.target_rpe, st.duration, st.rng)
    IN  [fatigue_batch |-> [st.fatigue_batch EXCEPT !.filled = @ + 1],
         rng           |-> out.rng,
         power_mult    |-> out.power_mult,
         target_rpe    |-> out.target_rpe,
         duration      |-> out.duration]

\* for i in range(lo, hi), in order: the iterations lo..mid-1, then mid..hi-1.
\* The range is halved, and each state is bound as the one element of a set
\* before the next iteration uses it, so that TLC computes the iterations
\* first to last, each once.
RECURSIVE BatchLoop(_, _, _, _)
BatchLoop(lo, hi, st, args) ==
    IF lo >= hi THEN st
    ELSE IF hi = lo + 1
         THEN CHOOSE r \in {BatchStep(x, args) : x \in {st}} : TRUE
    ELSE LET mid == (lo + hi) \div 2
         IN  CHOOSE r \in {BatchLoop(mid, hi, x, args) :
                               x \in {BatchLoop(lo, mid, st, args)}} : TRUE

run_batch_simulations(args) ==
    BatchLoop(0, args.size,
              [fatigue_batch |-> Matrix(args.size, args.num_days),
               rng           |-> Generator(args.seed),
               power_mult    |-> args.power_mult,
               target_rpe    |-> args.target_rpe,
               duration      |-> args.duration],
              args)

\* size = batch_size + (1 if i <= remainder else 0)
BatchSize_inclusive(i, n, w) == (n \div w) + (IF i <= n % w THEN 1 ELSE 0)

\* size = batch_size + (1 if i < remainder else 0)
BatchSize(i, n, w) == (n \div w) + (IF i < n % w THEN 1 ELSE 0)

\* for i in range(lo, hi), in order: the (i, size) of the batches appended
\* (halved so that the evaluation does not nest once per iteration)
RECURSIVE SplitLoop(_, _, _, _)
SplitLoop(lo, hi, n, w) ==
    IF lo >= hi THEN <<>>
    ELSE IF hi = lo + 1
         THEN IF BatchSize(lo, n, w) > 0
              THEN <<[i |-> lo, size |-> BatchSize(lo, n, w)]>>
              ELSE <<>>
    ELSE LET mid == (lo + hi) \div 2
         IN  SplitLoop(lo, mid, n, w) \o SplitLoop(mid, hi, n, w)

UseMultiprocessing(n, w) == n >= MIN_PARALLEL_SIMULATIONS /\ w > 1

\* seed = np.random.SeedSequence().generate_state(1)[0] + i, where entropy[k]
\* is what the SeedSequence made for the k-th appended batch gave
BatchSeed(entropy, k, i) == entropy[k] + i

\* pool.map re-raises a task's exception
MapRaises_never(t) == FALSE

MapRaises(t) == \E b \in 1..Len(t) : t[b].status = "failed"

\* pool.map returns once only the successful tasks are counted
JoinReady_successes(t) ==
    Cardinality({b \in 1..Len(t) : t[b].status = "done"}) = Len(t)

\* pool.map returns (or raises) once every task has finished
JoinReady(t) == \A b \in 1..Len(t) : t[b].status # "queued"

\* [r[0] for r in results]
RECURSIVE Collect(_)
Collect(t) ==
    IF t = <<>> THEN <<>>
    ELSE IF Head(t).status = "done" THEN Head(t).result \o Collect(Tail(t))
    ELSE Collect(Tail(t))

\* the sum of ms[lo + 1 .. hi][field], by halves
RECURSIVE SumRange(_, _, _, _)
SumRange(ms, lo, hi, field) ==
    IF lo >= hi THEN 0
    ELSE IF hi = lo + 1 THEN ms[hi][field]
    ELSE LET mid == (lo + hi) \div 2
         IN  SumRange(ms, lo, mid, field) + SumRange(ms, mid, hi, field)

SumOf(ms, field) == SumRange(ms, 0, Len(ms), field)

\* np.vstack of a non-empty list of matrices
VStack(ms) ==
    [rows |-> SumOf(ms, "rows"), cols |-> Head(ms).cols, filled |-> SumOf(ms, "filled")]

\* lines 389-413: the statistics are taken over the rows of the stacked matrix
Aggregate(stacked, pm, tr, nw) ==
    [num_days          |-> nw * 7,
     num_weeks         |-> nw,
     planned_intensity |-> pm,
     planned_rpe       |-> tr,
     trials            |-> stacked.rows,
     filled            |-> stacked.filled,
     days              |-> stacked.cols]

\* the template of test_interpolation.py: keyframes at 0%, 33.3333%, 66.6666%
TestTemplate ==
    <<Keyframe(1, StrPos(<<"0", "%">>)),
      Keyframe(2, StrPos(<<"3", "3", ".", "3", "3", "3", "3", "%">>)),
      Keyframe(3, StrPos(<<"6", "6", ".", "6", "6", "6", "6", "%">>))>>

SimulationCounts ==
    (1..MaxSeqSims) \cup (MIN_PARALLEL_SIMULATIONS..(MIN_PARALLEL_SIMULATIONS + ExtraSims))

\* The run as it stands at line 338: called with a template, num_simulations,
\* num_weeks and num_workers, the week definitions interpolated and the daily
\* vectors prepared (lines 329-336).
Init ==
    /\ num_simulations \in SimulationCounts
    /\ num_workers \in 1..MaxWorkers
    /\ num_weeks \in 1..MaxRunWeeks
    /\ weeks = TestTemplate
    /\ default_duration = DEFAULT_SESSION_DURATION
    /\ week_defs = interpolate_weeks(weeks, num_weeks, default_duration)
    /\ power_mult = prepare_week_data(week_defs, num_weeks).power_mult
    /\ target_rpe = prepare_week_data(week_defs, num_weeks).target_rpe
    /\ duration = prepare_week_data(week_defs, num_weeks).duration
    /\ total_weeks = 0
    /\ resolved = <<>>
    /\ ipc = "idle"
    /\ position = OtherPos
    /\ week = 0
    /\ prev = <<>>
    /\ rpc = "idle"
    /\ use_multiprocessing = FALSE
    /\ plan = <<>>
    /\ batches = <<>>
    /\ task = <<>>
    /\ rng = <<>>
    /\ all_fatigue = <<>>
    /\ sim = 0
    /\ results = <<>>
    /\ pc = "start"
    /\ CoreIdle

\* lines 338-362 and 373-375: the choice of path, and either the batches with
\* their seeds or the sequential path's generator and matrix
Dispatch ==
    /\ pc = "start"
    /\ use_multiprocessing' = UseMultiprocessing(num_simulations, num_workers)
    /\ IF UseMultiprocessing(num_simulations, num_workers)
       THEN \E p \in {SplitLoop(0, num_workers, num_simulations, num_workers)} :
               /\ plan' = p
               /\ \E entropy \in [1..Len(p) -> 0..MaxEntropy] :
                     batches' = [k \in 1..Len(p) |->
                         [size       |-> p[k].size,
                          num_weeks  |-> num_weeks,
                          num_days   |-> num_weeks * 7,
                          power_mult |-> power_mult,
                          target_rpe |-> target_rpe,
                          duration   |-> duration,
                          seed       |-> BatchSeed(entropy, k, p[k].i)]]
               /\ task' = [k \in 1..Len(p) |-> [status |-> "queued", result |-> <<>>]]
               /\ pc' = "pool"
               /\ UNCHANGED <<rng, all_fatigue>>
       ELSE /\ rng' = <<Generator("os")>>
            /\ all_fatigue' = <<Matrix(num_simulations, num_weeks * 7)>>
            /\ pc' = "loop"
            /\ UNCHANGED <<plan, batches, task>>
    /\ UNCHANGED <<sim, results>>
    /\ UNCHANGED <<interpVars, resolveVars, inputVars, vectorVars>>
    /\ UNCHANGED coreVars

\* a pool worker runs run_batch_simulations on batch b: an exception ends it,
\* or it returns the batch's matrices
BatchRun(b) ==
    /\ pc = "pool"
    /\ b \in 1..Len(task)
    /\ task[b].status = "queued"
    /\ \/ task' = [task EXCEPT ![b] = [status |-> "failed", result |-> <<>>]]
       \/ \E st \in {run_batch_simulations(batches[b])} :
              task' = [task EXCEPT ![b] =
                  [status |-> "done", result |-> <<st.fatigue_batch>>, rng |-> st.rng]]
    /\ UNCHANGED <<use_multiprocessing, plan, batches, rng, all_fatigue, sim, results, pc>>
    /\ UNCHANGED <<interpVars, resolveVars, inputVars, vectorVars>>
    /\ UNCHANGED coreVars

\* lines 365-413 once pool.map is over: it raises, or the results are stacked
\* and the statistics returned
PoolJoin ==
    /\ pc = "pool"
    /\ JoinReady(task)
    /\ \E rs \in {Collect(task)} :
          IF MapRaises(task) \/ rs = <<>>
          THEN /\ pc' = "failed"
               /\ UNCHANGED <<all_fatigue, results>>
          ELSE /\ all_fatigue' = <<VStack(rs)>>
               /\ results' = <<Aggregate(VStack(rs), power_mult, target_rpe, num_weeks)>>
               /\ pc' = "done"
    /\ UNCHANGED <<use_multiprocessing, plan, batches, task, rng, sim>>
    /\ UNCHANGED <<interpVars, resolveVars, inputVars, vectorVars>>
    /\ UNCHANGED coreVars

\* an exception in the sequential loop, or one iteration of it (lines 377-384)
SeqTrial ==
    /\ pc = "loop"
    /\ sim < num_simulations
    /\ \/ /\ pc' = "failed"
          /\ UNCHANGED <<all_fatigue, rng, sim, vectorVars>>
       \/ \E out \in {run_single_simulation_fast(
                            num_weeks * 7, power_mult, target_rpe, duration, rng[1])} :
              /\ all_fatigue' = <<[all_fatigue[1] EXCEPT !.filled = @ + 1]>>
              /\ rng' = <<out.rng>>
              /\ power_mult' = out.power_mult
              /\ target_rpe' = out.target_rpe
              /\ duration' = out.duration
              /\ sim' = sim + 1
              /\ pc' = pc
    /\ UNCHANGED <<use_multiprocessing, plan, batches, task, results>>
    /\ UNCHANGED <<interpVars, resolveVars, inputVars>>
    /\ UNCHANGED coreVars

\* lines 386-413 after the sequential loop
SeqFinish ==
    /\ pc = "loop"
    /\ sim >= num_simulations
    /\ results' = <<Aggregate(all_fatigue[1], power_mult, target_rpe, num_weeks)>>
    /\ pc' = "done"
    /\ UNCHANGED <<use_multiprocessing, plan, batches, task, rng, all_fatigue, sim>>
    /\ UNCHANGED <<interpVars, resolveVars, inputVars, vectorVars>>
    /\ UNCHANGED coreVars

Next ==
    \/ Dispatch
    \/ \E b \in 1..MaxWorkers : BatchRun(b)
    \/ PoolJoin
    \/ SeqTrial
    \/ SeqFinish

Spec == Init /\ [][Next]_vars

\* The operating system schedules the orchestrator, and the pool's workers
\* take up the batches that are still queued.
FairSpec ==
    /\ Spec
    /\ WF_vars(Dispatch)
    /\ WF_vars(\E b \in 1..MaxWorkers : BatchRun(b))
    /\ WF_vars(PoolJoin)
    /\ WF_vars(SeqTrial)
    /\ WF_vars(SeqFinish)

\* lines 343-357 alone: the choice of path and the split into batch sizes
PartSims ==
    (1..PartSpan)
        \cup ((MIN_PARALLEL_SIMULATIONS - PartSpan)..(MIN_PARALLEL_SIMULATIONS + PartSpan))

PartWorkers ==
    (1..PartSpan)
        \cup ((MIN_PARALLEL_SIMULATIONS - 1)..(MIN_PARALLEL_SIMULATIONS + PartSpan + 1))

InitPart ==
    /\ num_simulations \in PartSims
    /\ num_workers \in PartWorkers
    /\ num_weeks = 1
    /\ weeks = <<>>
    /\ default_duration = DEFAULT_SESSION_DURATION
    /\ total_weeks = 0
    /\ resolved = <<>>
    /\ week_defs = <<>>
    /\ ipc = "idle"
    /\ position = OtherPos
    /\ week = 0
    /\ prev = <<>>
    /\ rpc = "idle"
    /\ power_mult = <<>>
    /\ target_rpe = <<>>
    /\ duration = <<>>
    /\ use_multiprocessing = FALSE
    /\ plan = <<>>
    /\ batches = <<>>
    /\ task = <<>>
    /\ rng = <<>>
    /\ all_fatigue = <<>>
    /\ sim = 0
    /\ results = <<>>
    /\ pc = "split"
    /\ CoreIdle

SplitWork ==
    /\ pc = "split"
    /\ use_multiprocessing' = UseMultiprocessing(num_simulations, num_workers)
    /\ plan' = IF UseMultiprocessing(num_simulations, num_workers)
               THEN SplitLoop(0, num_workers, num_simulations, num_workers)
               ELSE <<>>
    /\ pc' = "planned"
    /\ UNCHANGED <<batches, task, rng, all_fatigue, sim, results>>
    /\ UNCHANGED <<interpVars, resolveVars, inputVars, vectorVars>>
    /\ UNCHANGED coreVars

NextPart == SplitWork

SpecPart == InitPart /\ [][NextPart]_vars

\* ----------------------------------------- run_monte_carlo_optimized: claims
AnyFailed == \E b \in 1..Len(task) : task[b].status = "failed"
AnyDone == \E b \in 1..Len(task) : task[b].status = "done"

\* C1: a run that returns an aggregate result computed its statistics over
\* exactly num_simulations rows, each filled by a trial; and once a concurrent
\* batch has failed, no aggregate result is returned: the run fails.
C1_AllTrialsOrFailure ==
    /\ results # <<>> =>
          /\ pc = "done"
          /\ results[1].trials = num_simulations
          /\ results[1].filled = num_simulations
          /\ ~AnyFailed
    /\ pc = "done" => results # <<>>
    /\ AnyFailed => (results = <<>> /\ pc \in {"pool", "failed"})

C1_Witness ==
    /\ pc = "failed"
    /\ use_multiprocessing
    /\ num_simulations = MIN_PARALLEL_SIMULATIONS + 1
    /\ AnyFailed
    /\ AnyDone
    /\ results = <<>>

\* C2: the parallel path is taken exactly when num_simulations >= 500 and
\* num_workers > 1; on it the batch sizes sum to num_simulations and differ
\* pairwise by at most 1, worker i (from 0) getting num_simulations \div W, plus
\* one when i < num_simulations mod W; so also when W > num_simulations.
ShareOf(i) ==
    IF \E k \in 1..Len(plan) : plan[k].i = i
    THEN plan[CHOOSE k \in 1..Len(plan) : plan[k].i = i].size
    ELSE 0

C2_NearEqualBatches ==
    pc = "planned" =>
        /\ use_multiprocessing <=>
              (num_simulations >= MIN_PARALLEL_SIMULATIONS /\ num_workers > 1)
        /\ ~use_multiprocessing => plan = <<>>
        /\ use_multiprocessing =>
              /\ SumOf(plan, "size") = num_simulations
              /\ \A a \in 1..Len(plan), b \in 1..Len(plan) :
                    /\ plan[a].size - plan[b].size <= 1
                    /\ a < b => plan[a].i < plan[b].i
                    /\ plan[a].i \in 0..(num_workers - 1)
              /\ \A i \in 0..(num_workers - 1) :
                    ShareOf(i) = (num_simulations \div num_workers)
                                   + (IF i < num_simulations % num_workers THEN 1 ELSE 0)

C2_Witness ==
    /\ pc = "planned"
    /\ use_multiprocessing
    /\ num_workers > num_simulations
    /\ Len(plan) = num_simulations
    /\ ShareOf(0) = 1
    /\ ShareOf(num_workers - 1) = 0

\* C3: in every parallel run any two different batches have different seeds.
C3_DistinctSeeds ==
    \A a \in 1..Len(batches), b \in 1..Len(batches) :
        a # b => batches[a].seed # batches[b].seed

\* C4, as claimed: no mutable state is shared between any two trials, so a
\* trial draws from a generator that no other trial has advanced, and leaves
\* the daily vectors as they were.
C4_NoSharedState ==
    [][(pc = "loop" /\ sim' = sim + 1) =>
          (rng[1].used = 0 /\ UNCHANGED vectorVars)]_vars

\* C4, amended: the trials of one batch, and all trials of the sequential
\* path, share one generator, which each of them advances (after k trials it
\* has been drawn from k times); the generator of a batch is made in that
\* batch from the batch's own seed and is advanced by that batch's trials
\* alone; and no trial modifies the daily vectors, which are what
\* prepare_week_data made of the week definitions and are echoed unmodified
\* as planned_intensity and planned_rpe.
C4_SharedOnlyGenerator ==
    /\ pc \in {"pool", "loop", "done", "failed"} =>
          /\ power_mult = prepare_week_data(week_defs, num_weeks).power_mult
          /\ target_rpe = prepare_week_data(week_defs, num_weeks).target_rpe
          /\ duration = prepare_week_data(week_defs, num_weeks).duration
    /\ results # <<>> =>
          /\ results[1].planned_intensity = prepare_week_data(week_defs, num_weeks).power_mult
          /\ results[1].planned_rpe = prepare_week_data(week_defs, num_weeks).target_rpe
    /\ rng # <<>> => rng[1].used = sim
    /\ \A b \in 1..Len(task) :
          task[b].status = "done" =>
              /\ task[b].rng = [seed |-> batches[b].seed, used |-> batches[b].size]
              /\ batches[b].power_mult = power_mult
              /\ batches[b].target_rpe = target_rpe
              /\ batches[b].duration = duration

C4_Witness ==
    /\ pc = "done"
    /\ ~use_multiprocessing
    /\ num_simulations = 2
    /\ rng[1].used = 2
    /\ results[1].planned_intensity = power_mult

ATL_DAYS == 7
CTL_DAYS == 42
FATIGUE_MIDPOINT == 1150
FATIGUE_STEEPNESS == 4500
READINESS_OPTIMAL_TSB == 20000
READINESS_WIDTH == 1250

\* x brought into [-m, m]: past m the float result rounds to the same score
Sat(x, m) == IF x > m THEN m ELSE IF x < 0 - m THEN 0 - m ELSE x

\* e^-k in millionths, k = 0, 1, ...: place k + 1
ExpTable ==
    <<1000000, 367879, 135335, 49787, 18316, 6738, 2479, 912, 335, 123, 45, 17, 6, 2, 1>>

\* the series of e^-f for f in [0, 1) (f in thousandths), in millionths:
\* term is f^n / n!, taken with the sign of (-1)^n
RECURSIVE ExpSeries(_, _, _, _)
ExpSeries(f, n, term, sum) ==
    IF term = 0 THEN sum
    ELSE ExpSeries(f, n + 1, (term * f) \div ((n + 1) * 1000),
                   IF n % 2 = 0 THEN sum + term ELSE sum - term)

\* np.exp(-z) for z >= 0 in thousandths, in millionths
ExpNeg(z) ==
    LET k == z \div 1000
        f == z % 1000
    IN  IF k + 1 > Len(ExpTable) THEN 0
        ELSE IF k = 0 THEN ExpSeries(f, 0, 1000000, 0)
        ELSE ((ExpTable[k + 1] \div 10) * (ExpSeries(f, 0, 1000000, 0) \div 100)) \div 1000

\* np.round leaving the score as it is
NpRound_none(x) == x

\* np.round: to the nearest integer, a tie to the even one
NpRound(x) == PyRound(x, 1000) * 1000

\* np.clip(x, lo, hi)
NpClip(x, lo, hi) == IF x < lo THEN lo ELSE IF x > hi THEN hi ELSE x

\* np.maximum(ctl, 0.001)
CtlSafe(c) == Max2(c, 1)

\* 100.0 / (1.0 + np.exp(-FATIGUE_STEEPNESS * (acwr - FATIGUE_MIDPOINT)))
FatigueRaw(acwr) ==
    LET x == Sat(acwr - FATIGUE_MIDPOINT, 100000)
        z == (FATIGUE_STEEPNESS * x) \div 1000
    IN  IF z >= 0
        THEN 1000000000 \div ((1000000 + ExpNeg(z)) \div 100)
        ELSE (1000 * ExpNeg(0 - z)) \div ((1000000 + ExpNeg(0 - z)) \div 100)

\* vectorized_fatigue_score, elementwise
vectorized_fatigue_score(a, c) ==
    [k \in DOMAIN a |->
        NpClip(NpRound(FatigueRaw((a[k] * 1000) \div CtlSafe(c[k]))), 0, 100000)]

\* 100.0 * np.exp(-np.power(tsb - READINESS_OPTIMAL_TSB, 2) / READINESS_WIDTH)
ReadinessRaw(t) ==
    LET d == Sat(t - READINESS_OPTIMAL_TSB, 400000) \div 10
    IN  ExpNeg((d * d) \div (READINESS_WIDTH * 10)) \div 10

\* vectorized_readiness_score, elementwise
vectorized_readiness_score(t) ==
    [k \in DOMAIN t |-> NpClip(NpRound(ReadinessRaw(t[k])), 0, 100000)]

\* ------------------------------------------------------------ the two scores
\* finite values of ATL, CTL and TSB: negative, zero, 0.001, small and large
FiniteValues == {0 - 2000000, 0 - 10000, 0, 1, 500, 9535, 20000, 2000000}

InterpIdle ==
    /\ weeks = <<>>
    /\ total_weeks = 0
    /\ default_duration = DEFAULT_SESSION_DURATION
    /\ resolved = <<>>
    /\ week_defs = <<>>
    /\ ipc = "idle"

ResolveIdle ==
    /\ position = OtherPos
    /\ week = 0
    /\ prev = <<>>
    /\ rpc = "idle"

RunIdle ==
    /\ num_simulations = 0
    /\ num_workers = 0
    /\ num_weeks = 0
    /\ power_mult = <<>>
    /\ target_rpe = <<>>
    /\ duration = <<>>
    /\ use_multiprocessing = FALSE
    /\ plan = <<>>
    /\ batches = <<>>
    /\ task = <<>>
    /\ rng = <<>>
    /\ all_fatigue = <<>>
    /\ sim = 0
    /\ results = <<>>
    /\ pc = "idle"

InitScore ==
    /\ \E a \in FiniteValues : atl = <<a>>
    /\ \E c \in FiniteValues : ctl = <<c>>
    /\ \E t \in FiniteValues : tsb = <<t>>
    /\ fatigue_scores = <<>>
    /\ readiness_scores = <<>>
    /\ tpc = "scores"
    /\ daily_loads = <<>>
    /\ sessions_per_week = <<>>
    /\ week_idx = 0
    /\ sessions = <<>>
    /\ prev_day0 = <<>>
    /\ EwmaIdle
    /\ StatIdle
    /\ InterpIdle
    /\ ResolveIdle
    /\ RunIdle

\* the two score functions applied to the arrays
ScoreCall ==
    /\ tpc = "scores"
    /\ fatigue_scores' = vectorized_fatigue_score(atl, ctl)
    /\ readiness_scores' = vectorized_readiness_score(tsb)
    /\ tpc' = "scored"
    /\ UNCHANGED <<daily_loads, sessions_per_week, week_idx, sessions, atl, ctl, tsb,
                   prev_day0>>
    /\ UNCHANGED <<ewmaVars, statVars>>
    /\ UNCHANGED <<interpVars, resolveVars, inputVars, vectorVars, runVars>>

NextScore == ScoreCall

SpecScore == InitScore /\ [][NextScore]_vars

\* C13: every fatigue score and every readiness score is an integer in
\* [0, 100] (in thousandths: a multiple of 1000 in [0, 100000]), whatever
\* finite values ATL, CTL and TSB have, ATL = 0 and CTL <= 0 included.
C13_ScoresInRange ==
    tpc = "scored" =>
        /\ Len(fatigue_scores) = Len(atl)
        /\ Len(readiness_scores) = Len(tsb)
        /\ \A k \in 1..Len(fatigue_scores) :
              /\ fatigue_scores[k] % 1000 = 0
              /\ fatigue_scores[k] \in 0..100000
        /\ \A k \in 1..Len(readiness_scores) :
              /\ readiness_scores[k] % 1000 = 0
              /\ readiness_scores[k] \in 0..100000

C13_Witness ==
    /\ tpc = "scored"
    /\ atl = <<0>>
    /\ ctl = <<0>>
    /\ tsb = <<9535>>
    /\ fatigue_scores = <<1000>>
    /\ readiness_scores = <<92000>>

\* ------------------------------------------------------------ vectorized_ewma
MaxLoads == 3        \* the load sequences handed to vectorized_ewma have 0..MaxLoads days

\* ATL_ALPHA = 2.0 / (ATL_DAYS + 1) and CTL_ALPHA = 2.0 / (CTL_DAYS + 1), as
\* fractions; decay = 1.0 - alpha is then (den - num) / den
ATL_ALPHA == [num |-> 2, den |-> ATL_DAYS + 1]
CTL_ALPHA == [num |-> 2, den |-> CTL_DAYS + 1]

\* current * alpha + daily_loads[i] * decay
Blend_swapped(c, load, a) == (c * a.num + load * (a.den - a.num)) \div a.den

\* line 101: current * decay + daily_loads[i] * alpha
Blend(c, load, a) == (c * (a.den - a.num) + load * a.num) \div a.den

\* the loop of lines 99-102 from day k on, appending to the filled part r
RECURSIVE EwmaLoop(_, _, _, _, _)
EwmaLoop(loads, a, c, k, r) ==
    IF k > Len(loads) THEN r
    ELSE EwmaLoop(loads, a, Blend(c, loads[k], a), k + 1,
                  Append(r, Blend(c, loads[k], a)))

vectorized_ewma(loads, a, init) == EwmaLoop(loads, a, init, 1, <<>>)

\* the two calls of lines 286-287
EwmaCalls ==
    {[alpha |-> ATL_ALPHA, initial |-> 0], [alpha |-> CTL_ALPHA, initial |-> 10000]}

\* daily loads: a rest day, a light and a hard session
LoadValues == {0, 12000, 40000}

InitEwma ==
    /\ \E n \in 0..MaxLoads : daily_loads \in [1..n -> LoadValues]
    /\ \E call \in EwmaCalls :
          /\ alpha = call.alpha
          /\ initial = call.initial
          /\ cur = call.initial
    /\ result = [k \in 1..Len(daily_loads) |-> "empty"]
    /\ idx = 0
    /\ epc = "loop"
    /\ sessions_per_week = <<>>
    /\ week_idx = 0
    /\ sessions = <<>>
    /\ atl = <<>>
    /\ ctl = <<>>
    /\ tsb = <<>>
    /\ fatigue_scores = <<>>
    /\ readiness_scores = <<>>
    /\ prev_day0 = <<>>
    /\ tpc = "idle"
    /\ StatIdle
    /\ InterpIdle
    /\ ResolveIdle
    /\ RunIdle

\* one iteration of "for i in range(n)" (lines 100-102)
EwmaStep ==
    /\ epc = "loop"
    /\ idx < Len(daily_loads)
    /\ cur' = Blend(cur, daily_loads[idx + 1], alpha)
    /\ result' = [result EXCEPT ![idx + 1] = Blend(cur, daily_loads[idx + 1], alpha)]
    /\ idx' = idx + 1
    /\ UNCHANGED <<alpha, initial, epc, statVars>>
    /\ UNCHANGED trialVars
    /\ UNCHANGED <<interpVars, resolveVars, inputVars, vectorVars, runVars>>

\* line 104: return result
EwmaReturn ==
    /\ epc = "loop"
    /\ idx >= Len(daily_loads)
    /\ epc' = "done"
    /\ UNCHANGED <<alpha, initial, cur, result, idx, statVars>>
    /\ UNCHANGED trialVars
    /\ UNCHANGED <<interpVars, resolveVars, inputVars, vectorVars, runVars>>

NextEwma == EwmaStep \/ EwmaReturn

SpecEwma == InitEwma /\ [][NextEwma]_vars

\* C19: the days are processed in order (after i iterations exactly the first
\* i entries are filled); the result has the length of the load sequence and
\* follows state_0 = seed (1 - alpha) + load_0 alpha, state_i = state_(i-1)
\* (1 - alpha) + load_i alpha, with alpha = 2/8 from seed 0 or alpha = 2/43
\* from seed 10; entry i is what the call on the first i + 1 loads alone
\* gives, and the call on the same loads, alpha and seed gives the same result.
C19_EwmaRecurrence ==
    /\ <<alpha, initial>> \in {<<[num |-> 2, den |-> 8], 0>>, <<[num |-> 2, den |-> 43], 10000>>}
    /\ Len(result) = Len(daily_loads)
    /\ \A k \in 1..Len(result) :
          IF k <= idx
          THEN /\ result[k] =
                    ((IF k = 1 THEN initial ELSE result[k - 1]) * (alpha.den - alpha.num)
                         + daily_loads[k] * alpha.num) \div alpha.den
               /\ result[k] = vectorized_ewma(SubSeq(daily_loads, 1, k), alpha, initial)[k]
          ELSE result[k] = "empty"
    /\ epc = "done" =>
          /\ idx = Len(daily_loads)
          /\ result = vectorized_ewma(daily_loads, alpha, initial)

C19_Witness ==
    /\ epc = "done"
    /\ alpha = CTL_ALPHA
    /\ initial = 10000
    /\ daily_loads = <<40000, 0, 12000>>
    /\ result[1] = 11395
    /\ result[3] = Blend(Blend(11395, 0, CTL_ALPHA), 12000, CTL_ALPHA)

\* ------------------------------------------------- the aggregate statistics
MaxStatRows == 3     \* the stacked matrix has 1..MaxStatRows trial rows

\* the integer square root: the largest r in lo..hi with r * r <= n
RECURSIVE ISqrtIn(_, _, _)
ISqrtIn(n, lo, hi) ==
    IF lo >= hi THEN lo
    ELSE LET mid == (lo + hi + 1) \div 2
         IN  IF mid * mid <= n THEN ISqrtIn(n, mid, hi) ELSE ISqrtIn(n, lo, mid - 1)

ISqrt(n) == ISqrtIn(n, 0, 46340)

RECURSIVE SumSeq(_)
SumSeq(s) == IF s = <<>> THEN 0 ELSE Head(s) + SumSeq(Tail(s))

\* all_fatigue[:, d]: the column of day d (place d) of a matrix of rows
Column(mat, d) == [k \in 1..Len(mat) |-> mat[k][d]]

\* a mean that divides by one more than the number of rows
NpMean_offbyone(col) == SumSeq(col) \div (Len(col) + 1)

\* np.mean(col)
NpMean(col) == SumSeq(col) \div Len(col)

\* np.std(col): the population standard deviation, sqrt(mean((x - mean)^2));
\* the deviations are squared in hundredths
NpStd(col) ==
    LET m == NpMean(col)
        sq == [k \in 1..Len(col) |-> ((col[k] - m) \div 10) * ((col[k] - m) \div 10)]
    IN  ISqrt(SumSeq(sq) \div Len(col)) * 10

NpMin(col) == CHOOSE x \in {col[k] : k \in 1..Len(col)} : \A k \in 1..Len(col) : x <= col[k]
NpMax(col) == CHOOSE x \in {col[k] : k \in 1..Len(col)} : \A k \in 1..Len(col) : x >= col[k]

\* the column in ascending order
RECURSIVE SortInts(_)
SortInts(s) ==
    IF s = <<>> THEN <<>>
    ELSE LET r == SortInts(Tail(s))
             k == Cardinality({m \in 1..Len(r) : r[m] < Head(s)})
         IN  SubSeq(r, 1, k) \o <<Head(s)>> \o SubSeq(r, k + 1, Len(r))

\* a percentile read off the column as it is stacked
NpPercentile_unsorted(col, q) ==
    LET pos == q * (Len(col) - 1)
        lo == (pos \div 100) + 1
        hi == IF lo < Len(col) THEN lo + 1 ELSE lo
    IN  col[lo] + ((col[hi] - col[lo]) * (pos % 100)) \div 100

\* np.percentile(col, q): linear interpolation between the order statistics
\* around position q / 100 * (n - 1)
NpPercentile(col, q) ==
    LET v == SortInts(col)
        pos == q * (Len(col) - 1)
        lo == (pos \div 100) + 1
        hi == IF lo < Len(col) THEN lo + 1 ELSE lo
    IN  v[lo] + ((v[hi] - v[lo]) * (pos % 100)) \div 100

\* lines 395-402 (and 403-410): the six per-day statistics of a matrix
StatsOf(mat) ==
    LET days == 1..Len(mat[1])
    IN  [mean          |-> [d \in days |-> NpMean(Column(mat, d))],
         std           |-> [d \in days |-> NpStd(Column(mat, d))],
         min           |-> [d \in days |-> NpMin(Column(mat, d))],
         max           |-> [d \in days |-> NpMax(Column(mat, d))],
         percentile_25 |-> [d \in days |-> NpPercentile(Column(mat, d), 25)],
         percentile_75 |-> [d \in days |-> NpPercentile(Column(mat, d), 75)]]

\* np.vstack of a list of matrices given as rows: the rows of the first, then
\* of the second, ...
RECURSIVE VStackRows(_)
VStackRows(ms) == IF ms = <<>> THEN <<>> ELSE Head(ms) \o VStackRows(Tail(ms))

\* the scores of a trial row: two days, each at 20 or at 90
StatScores == {20000, 90000}
StatRows == [{1, 2} -> StatScores]

\* pool.map has returned: the trial rows, cut into one or two batches
InitStats ==
    /\ \E m \in 1..MaxStatRows :
          \E rows \in [1..m -> StatRows] :
             \E cut \in 1..m :
                pool_results =
                    IF cut = m THEN <<rows>>
                    ELSE <<SubSeq(rows, 1, cut), SubSeq(rows, cut + 1, m)>>
    /\ spc = "stack"
    /\ TrialIdle
    /\ EwmaIdle
    /\ InterpIdle
    /\ ResolveIdle
    /\ RunIdle

\* lines 369 and 395-402: the batches are stacked in the order of the list
\* and the statistics taken per day
StackAndAggregate ==
    /\ spc = "stack"
    /\ all_fatigue' = VStackRows(pool_results)
    /\ results' = <<[fatigue |-> StatsOf(VStackRows(pool_results))]>>
    /\ spc' = "done"
    /\ UNCHANGED <<pool_results, trialVars, ewmaVars>>
    /\ UNCHANGED <<interpVars, resolveVars, inputVars, vectorVars>>
    /\ UNCHANGED <<use_multiprocessing, plan, batches, task, rng, sim, pc>>

NextStats == StackAndAggregate

SpecStats == InitStats /\ [][NextStats]_vars

\* C16: when every trial row holds the same score C on every day, then for
\* every day mean = C, std = 0, min = max = C and both percentiles = C.
C16_ConstantTrials ==
    spc = "done" =>
        \A c \in StatScores :
            (\A k \in 1..Len(all_fatigue) : \A d \in 1..Len(all_fatigue[k]) :
                 all_fatigue[k][d] = c)
            => \A d \in 1..Len(all_fatigue[1]) :
                  /\ results[1].fatigue.mean[d] = c
                  /\ results[1].fatigue.std[d] = 0
                  /\ results[1].fatigue.min[d] = c
                  /\ results[1].fatigue.max[d] = c
                  /\ results[1].fatigue.percentile_25[d] = c
                  /\ results[1].fatigue.percentile_75[d] = c

C16_Witness ==
    /\ spc = "done"
    /\ all_fatigue = <<<<90000, 90000>>, <<90000, 90000>>, <<90000, 90000>>>>
    /\ results[1].fatigue.mean = <<90000, 90000>>
    /\ results[1].fatigue.std = <<0, 0>>
    /\ results[1].fatigue.percentile_25 = <<90000, 90000>>

\* the rows of mat in the order p (a permutation of 1..Len(mat))
Permuted(mat, p) == [k \in 1..Len(mat) |-> mat[p[k]]]
RowOrders(n) == {p \in [1..n -> 1..n] : \A a, b \in 1..n : a # b => p[a] # p[b]}

RECURSIVE Reversed(_)
Reversed(s) == IF s = <<>> THEN <<>> ELSE Reversed(Tail(s)) \o <<Head(s)>>

MaxTrialWeeks == 2   \* a trial runs over 1..MaxTrialWeeks weeks

BASE_POWER == 200    \* --base-power, in watts

\* line 330: num_days = num_weeks * 7
NumDays(nw) == nw * 7

\* range(num_days) less its last day
Dates_short(nd) == [k \in 1..(nd - 1) |-> k - 1]

\* line 392: one date per i in range(num_days), as its offset from start_date
Dates(nd) == [k \in 1..nd |-> k - 1]

\* x ** 1.5 and x ** 0.75 for x >= 0, through square roots
Pow15(x) == (x * ISqrt(x * 1000)) \div 1000
Pow075(x) == (ISqrt(x * 1000) * ISqrt(ISqrt(x * 1000) * 1000)) \div 1000

\* week_start + day with weeks of six days
DayIndex_six(wk, day) == wk * 6 + day

\* lines 261 and 268: day_idx = week_start + day
DayIndex(wk, day) == wk * 7 + day

\* lines 270-281 for one session: the vectors hold tenths (power multiplier),
\* whole RPE points and whole minutes; noise is what the two rng.uniform
\* calls returned
Session(day_idx, pm, tr, du, noise) ==
    LET planned_power == (BASE_POWER * 1000 * (pm[day_idx + 1] * 100)) \div 1000
        actual_power == (planned_power * (1000 + noise.power)) \div 1000
        planned_rpe == tr[day_idx + 1] * 1000
        actual_rpe == NpClip(planned_rpe + noise.rpe, 1000, 10000)
        power_ratio == (actual_power * 1000) \div (BASE_POWER * 1000)
        dur == du[day_idx + 1] * 1000
        ratio_root == ISqrt(Max2(250, Min2(4000, power_ratio)) * 1000)
    IN  [actual_rpe |-> actual_rpe,
         load |-> (((((Pow15(actual_rpe) * Pow075(dur)) \div 1000) * ratio_root)
                       \div 1000) * 300) \div 1000]

\* the loop of lines 267-283 from the k-th session day of the week on
RECURSIVE AddSessions(_, _, _, _, _, _, _)
AddSessions(st, wk, draw, k, pm, tr, du) ==
    IF k > Len(draw.days) THEN st
    ELSE LET day_idx == DayIndex(wk, draw.days[k])
             s == Session(day_idx, pm, tr, du, draw.noise[k])
         IN  AddSessions(
                 [loads    |-> [st.loads EXCEPT ![day_idx + 1] = @ + s.load],
                  sessions |-> Append(st.sessions,
                                  [week_idx   |-> wk,
                                   day        |-> draw.days[k],
                                   day_idx    |-> day_idx,
                                   noise      |-> draw.noise[k],
                                   actual_rpe |-> s.actual_rpe,
                                   load       |-> s.load])],
                 wk, draw, k + 1, pm, tr, du)

\* an ATL and a CTL of which the CTL starts from the mean of all loads
TrialEwma_meanseed(loads) ==
    [atl |-> vectorized_ewma(loads, ATL_ALPHA, 0),
     ctl |-> vectorized_ewma(loads, CTL_ALPHA, NpMean(loads))]

\* lines 286-287
TrialEwma(loads) ==
    [atl |-> vectorized_ewma(loads, ATL_ALPHA, 0),
     ctl |-> vectorized_ewma(loads, CTL_ALPHA, 10000)]

\* lines 389-411 for the matrices of rows allf and allr
ResultsDict(allf, allr, pm, tr, nw) ==
    [num_days          |-> NumDays(nw),
     num_weeks         |-> nw,
     dates             |-> Dates(NumDays(nw)),
     planned_intensity |-> pm,
     planned_rpe       |-> tr,
     fatigue           |-> StatsOf(allf),
     readiness         |-> StatsOf(allr)]

\* rng.integers(2, 5)
SessionCounts == {2, 3, 4}

\* the two rng.uniform draws of a session, in thousandths: both at the low
\* end or both at the high end of [-0.05, 0.05) and [-0.5, 0.5)
LowNoise == [power |-> 0 - 50, rpe |-> 0 - 500]
HighNoise == [power |-> 49, rpe |-> 499]
NoiseDraws == {LowNoise, HighNoise}

\* the elements of a set of numbers in ascending order
RECURSIVE SetSeq(_)
SetSeq(s) ==
    IF s = {} THEN <<>>
    ELSE LET x == CHOOSE y \in s : \A z \in s : y <= z
         IN  <<x>> \o SetSeq(s \ {x})

\* rng.choice(7, size=n, replace=False): n distinct days of 0..6
DaySets(n) == {s \in SUBSET (0..6) : Cardinality(s) = n}

\* the days the model lets a later week take, the first n of them
LaterDays == <<0, 2, 4, 6>>

\* What the generator gives for one week: the session days (taken in ascending
\* order: the order only decides which noise goes with which day) and the
\* noise of each session.  The first week draws any n days, either noise for
\* its earliest session and either noise for its other sessions; a later week
\* draws the first n of LaterDays and the low noise.
WeekDraws(wk, n) ==
    IF wk = 0
    THEN {[days |-> SetSeq(s), noise |-> [k \in 1..n |-> IF k = 1 THEN nd ELSE rest]] :
              s \in DaySets(n), nd \in NoiseDraws, rest \in NoiseDraws}
    ELSE {[days |-> SubSeq(LaterDays, 1, n), noise |-> [k \in 1..n |-> LowNoise]]}

\* the one-keyframe template: position "first", multiplier 1.0, no duration
TrialRpe == {6, 10}
OneKeyframe(rpe) ==
    <<[position |-> StrPos(FIRST), powerMultiplier |-> 10, targetRPE |-> rpe]>>

\* a sequential run of one simulation, at the call of the trial (line 381)
InitTrial ==
    /\ num_weeks \in 1..MaxTrialWeeks
    /\ num_simulations = 1
    /\ num_workers = 1
    /\ \E rpe \in TrialRpe : weeks = OneKeyframe(rpe)
    /\ default_duration = 20
    /\ total_weeks = num_weeks
    /\ resolved = <<>>
    /\ week_defs = interpolate_weeks(weeks, num_weeks, default_duration)
    /\ ipc = "idle"
    /\ power_mult = prepare_week_data(week_defs, num_weeks).power_mult
    /\ target_rpe = prepare_week_data(week_defs, num_weeks).target_rpe
    /\ duration = prepare_week_data(week_defs, num_weeks).duration
    /\ use_multiprocessing = FALSE
    /\ plan = <<>>
    /\ batches = <<>>
    /\ task = <<>>
    /\ rng = <<>>
    /\ all_fatigue = <<>>
    /\ sim = 0
    /\ results = <<>>
    /\ pc = "idle"
    /\ daily_loads = <<>>
    /\ sessions_per_week = <<>>
    /\ week_idx = 0
    /\ sessions = <<>>
    /\ atl = <<>>
    /\ ctl = <<>>
    /\ tsb = <<>>
    /\ fatigue_scores = <<>>
    /\ readiness_scores = <<>>
    /\ prev_day0 = <<>>
    /\ tpc = "start"
    /\ EwmaIdle
    /\ StatIdle
    /\ ResolveIdle

\* lines 255-258: the session counts of all weeks, and the zeroed loads
TrialStart ==
    /\ tpc = "start"
    /\ sessions_per_week' \in [1..num_weeks -> SessionCounts]
    /\ daily_loads' = [d \in 1..NumDays(num_weeks) |-> 0]
    /\ week_idx' = 0
    /\ sessions' = <<>>
    /\ tpc' = "weeks"
    /\ UNCHANGED <<atl, ctl, tsb, fatigue_scores, readiness_scores, prev_day0>>
    /\ UNCHANGED <<ewmaVars, statVars>>
    /\ UNCHANGED <<interpVars, resolveVars, inputVars, vectorVars, runVars>>

\* one iteration of "for week_idx in range(num_weeks)" (lines 260-283)
TrialWeek ==
    /\ tpc = "weeks"
    /\ week_idx < num_weeks
    /\ \E draw \in WeekDraws(week_idx, sessions_per_week[week_idx + 1]) :
          \E st \in {AddSessions([loads |-> daily_loads, sessions |-> sessions],
                                 week_idx, draw, 1, power_mult, target_rpe, duration)} :
             /\ daily_loads' = st.loads
             /\ sessions' = st.sessions
    /\ week_idx' = week_idx + 1
    /\ UNCHANGED <<sessions_per_week, atl, ctl, tsb, fatigue_scores, readiness_scores,
                   prev_day0, tpc>>
    /\ UNCHANGED <<ewmaVars, statVars>>
    /\ UNCHANGED <<interpVars, resolveVars, inputVars, vectorVars, runVars>>

\* lines 285-294: the two averages, the scores, and the return
TrialScores ==
    /\ tpc = "weeks"
    /\ week_idx >= num_weeks
    /\ \E e \in {TrialEwma(daily_loads)} :
          /\ atl' = e.atl
          /\ ctl' = e.ctl
          /\ tsb' = [k \in 1..Len(e.ctl) |-> e.ctl[k] - e.atl[k]]
          /\ fatigue_scores' = vectorized_fatigue_score(e.atl, e.ctl)
          /\ readiness_scores' =
                 vectorized_readiness_score([k \in 1..Len(e.ctl) |-> e.ctl[k] - e.atl[k]])
    /\ tpc' = "done"
    /\ UNCHANGED <<daily_loads, sessions_per_week, week_idx, sessions, prev_day0>>
    /\ UNCHANGED <<ewmaVars, statVars>>
    /\ UNCHANGED <<interpVars, resolveVars, inputVars, vectorVars, runVars>>

\* lines 381 and 386-413 with num_simulations = 1: the trial's rows are the
\* two matrices, and the result is returned
TrialAggregate ==
    /\ tpc = "done"
    /\ results' = <<ResultsDict(<<fatigue_scores>>, <<readiness_scores>>,
                                power_mult, target_rpe, num_weeks)>>
    /\ tpc' = "returned"
    /\ UNCHANGED <<daily_loads, sessions_per_week, week_idx, sessions, atl, ctl, tsb,
                   fatigue_scores, readiness_scores, prev_day0>>
    /\ UNCHANGED <<ewmaVars, statVars>>
    /\ UNCHANGED <<interpVars, resolveVars, inputVars, vectorVars>>
    /\ UNCHANGED <<use_multiprocessing, plan, batches, task, rng, all_fatigue, sim, pc>>

\* the run is made again with the same arguments; day 0 of the run before is
\* kept for comparison
NextRun ==
    /\ tpc = "returned"
    /\ prev_day0' =
           <<[scheduled |-> \E k \in 1..Len(sessions) : sessions[k].day_idx = 0,
              noise     |-> {sessions[k].noise : k \in {j \in 1..Len(sessions) :
                                                           sessions[j].day_idx = 0}},
              load      |-> daily_loads[1],
              fatigue   |-> fatigue_scores[1],
              readiness |-> readiness_scores[1]]>>
    /\ daily_loads' = <<>>
    /\ sessions_per_week' = <<>>
    /\ week_idx' = 0
    /\ sessions' = <<>>
    /\ atl' = <<>>
    /\ ctl' = <<>>
    /\ tsb' = <<>>
    /\ fatigue_scores' = <<>>
    /\ readiness_scores' = <<>>
    /\ results' = <<>>
    /\ tpc' = "start"
    /\ UNCHANGED <<ewmaVars, statVars>>
    /\ UNCHANGED <<interpVars, resolveVars, inputVars, vectorVars>>
    /\ UNCHANGED <<use_multiprocessing, plan, batches, task, rng, all_fatigue, sim, pc>>

NextTrial == TrialStart \/ TrialWeek \/ TrialScores \/ TrialAggregate \/ NextRun

SpecTrial == InitTrial /\ [][NextTrial]_vars

\* the places of the sessions that fall on day index d
SessionsOn(d) == {k \in 1..Len(sessions) : sessions[k].day_idx = d}

\* the places of the sessions of week index wk
SessionsOf(wk) == {k \in 1..Len(sessions) : sessions[k].week_idx = wk}

\* C18: in every trial, every week that has been scheduled has 2, 3 or 4
\* sessions, on pairwise distinct days that lie in [7k, 7k + 6] for week index
\* k; a day gets at most one session load, a day without a session has load
\* exactly 0, and every session's actual exertion lies in [1, 10].
C18_Schedule ==
    tpc \in {"weeks", "done", "returned"} =>
        /\ \A wk \in 0..(week_idx - 1) :
              /\ sessions_per_week[wk + 1] \in {2, 3, 4}
              /\ Cardinality(SessionsOf(wk)) = sessions_per_week[wk + 1]
              /\ Cardinality({sessions[k].day_idx : k \in SessionsOf(wk)})
                     = sessions_per_week[wk + 1]
              /\ \A k \in SessionsOf(wk) :
                    /\ sessions[k].day_idx >= 7 * wk
                    /\ sessions[k].day_idx <= 7 * wk + 6
        /\ \A k \in 1..Len(sessions) :
              /\ sessions[k].week_idx < week_idx
              /\ sessions[k].actual_rpe >= 1000
              /\ sessions[k].actual_rpe <= 10000
        /\ \A d \in 0..(Len(daily_loads) - 1) :
              /\ Cardinality(SessionsOn(d)) <= 1
              /\ SessionsOn(d) = {} => daily_loads[d + 1] = 0
              /\ \A k \in SessionsOn(d) : daily_loads[d + 1] = sessions[k].load

\* a finished two-week trial with 4 and 2 sessions, one of them of a target
\* exertion of 10 whose noise was clipped off, and a day left without load
C18_Witness ==
    /\ tpc = "done"
    /\ num_weeks = 2
    /\ sessions_per_week = <<4, 2>>
    /\ \E k \in 1..Len(sessions) :
          /\ sessions[k].noise.rpe > 0
          /\ target_rpe[sessions[k].day_idx + 1] = 10
          /\ sessions[k].actual_rpe = 10000
          /\ sessions[k].load > 0
    /\ \E d \in 1..Len(daily_loads) : daily_loads[d] = 0
    /\ \E k \in 1..Len(sessions) : sessions[k].day_idx >= 7

\* the per-day arrays of the aggregate result
PerDayArrays(r) ==
    {r.dates, r.planned_intensity, r.planned_rpe,
     r.fatigue.mean, r.fatigue.std, r.fatigue.min, r.fatigue.max,
     r.fatigue.percentile_25, r.fatigue.percentile_75,
     r.readiness.mean, r.readiness.std, r.readiness.min, r.readiness.max,
     r.readiness.percentile_25, r.readiness.percentile_75}

Day0Scheduled == SessionsOn(0) # {}

\* the trial at hand and the trial before it both ran the template of target
\* exertion 6, and the trial at hand has its scores
TwoTrials == tpc = "done" /\ prev_day0 # <<>> /\ target_rpe[1] = 6

\* C15 as stated: two trials that agree on whether a session is scheduled on
\* day 0 have the same day-0 fatigue and the same day-0 readiness, whatever
\* the noise draws and whatever is scheduled on later days.
C15_FlagDeterminesDay0 ==
    (TwoTrials /\ prev_day0[1].scheduled = Day0Scheduled) =>
        /\ fatigue_scores[1] = prev_day0[1].fatigue
        /\ readiness_scores[1] = prev_day0[1].readiness

\* C15, amended: the day-0 fatigue and readiness are determined by the load
\* of day 0 alone.  That load is 0 when no session is scheduled on day 0 (the
\* scores are then 1 and 92) and is otherwise the load of the day-0 session,
\* which depends on that session's power and exertion noise; two trials with
\* the same day-0 load have the same day-0 scores whatever is scheduled, and
\* whatever noise is drawn, on later days.
C15_Day0FromLoad ==
    TwoTrials =>
        /\ ~Day0Scheduled =>
              /\ daily_loads[1] = 0
              /\ fatigue_scores[1] = 1000
              /\ readiness_scores[1] = 92000
        /\ \A k \in SessionsOn(0) : daily_loads[1] = sessions[k].load
        /\ daily_loads[1] = prev_day0[1].load =>
              /\ fatigue_scores[1] = prev_day0[1].fatigue
              /\ readiness_scores[1] = prev_day0[1].readiness

\* two trials with a session on day 0 of the same noise, the one at hand with
\* four sessions in each of two weeks: same day-0 load, same day-0 scores
C15_Witness ==
    /\ TwoTrials
    /\ num_weeks = 2
    /\ sessions_per_week = <<4, 4>>
    /\ Day0Scheduled
    /\ prev_day0[1].scheduled
    /\ daily_loads[1] > 0
    /\ daily_loads[1] = prev_day0[1].load
    /\ fatigue_scores[1] = prev_day0[1].fatigue
    /\ fatigue_scores[1] > 1000

\* ---------------------------------------------------------- prepare_week_data
\* run_monte_carlo_optimized at line 335: the template's keyframes and
\* num_weeks are given, nothing has been computed yet
InitPrepare ==
    /\ \E len \in 0..MaxKeyframes :
          \E f \in [1..len -> KeyframePositions] :
              weeks = [j \in 1..len |-> Keyframe(j, f[j])]
    /\ num_weeks \in 1..MaxWeeks
    /\ total_weeks = num_weeks
    /\ default_duration = 20
    /\ resolved = <<>>
    /\ week_defs = <<>>
    /\ ipc = "call"
    /\ ResolveIdle
    /\ num_simulations = 1
    /\ num_workers = 1
    /\ power_mult = <<>>
    /\ target_rpe = <<>>
    /\ duration = <<>>
    /\ use_multiprocessing = FALSE
    /\ plan = <<>>
    /\ batches = <<>>
    /\ task = <<>>
    /\ rng = <<>>
    /\ all_fatigue = <<>>
    /\ sim = 0
    /\ results = <<>>
    /\ pc = "idle"
    /\ CoreIdle

\* line 336: power_mult, target_rpe, duration = prepare_week_data(...)
PrepareWeekData ==
    /\ ipc = "done"
    /\ pc = "idle"
    /\ power_mult' = prepare_week_data(week_defs, num_weeks).power_mult
    /\ target_rpe' = prepare_week_data(week_defs, num_weeks).target_rpe
    /\ duration' = prepare_week_data(week_defs, num_weeks).duration
    /\ pc' = "prepared"
    /\ UNCHANGED <<use_multiprocessing, plan, batches, task, rng, all_fatigue, sim, results>>
    /\ UNCHANGED <<interpVars, resolveVars, inputVars, coreVars>>

NextPrepare == Interpolate \/ PrepareWeekData

SpecPrepare == InitPrepare /\ [][NextPrepare]_vars

\* C20: the three daily vectors have exactly 7 * weeks entries and day index
\* d holds the value of the WeekDefinition of week floor(d / 7) + 1; no entry
\* is left unassigned, the interpolated list having exactly `weeks` entries,
\* so that every day's week is one of the list.
C20_DailyVectors ==
    pc = "prepared" =>
        /\ Len(week_defs) = num_weeks
        /\ Len(power_mult) = 7 * num_weeks
        /\ Len(target_rpe) = 7 * num_weeks
        /\ Len(duration) = 7 * num_weeks
        /\ \A d \in 0..(7 * num_weeks - 1) :
              /\ (d \div 7) + 1 \in 1..Len(week_defs)
              /\ power_mult[d + 1] = week_defs[(d \div 7) + 1].power_multiplier
              /\ target_rpe[d + 1] = week_defs[(d \div 7) + 1].target_rpe
              /\ duration[d + 1] = week_defs[(d \div 7) + 1].duration_minutes

\* the vectors of a three-week run whose second week differs from its first:
\* day 6 has the first week's multiplier and day 7 the second week's
C20_Witness ==
    /\ pc = "prepared"
    /\ num_weeks = 3
    /\ week_defs[1].power_multiplier # week_defs[2].power_multiplier
    /\ power_mult[7] = week_defs[1].power_multiplier
    /\ power_mult[8] = week_defs[2].power_multiplier
    /\ Len(duration) = 21

====
